---- MODULE Spec2Model ----
(***************************************************************************)
(* Model of atpy/hdf5table.py: the HDF5 reader/writer of atpy tables.      *)
(*                                                                         *)
(* Strings are sequences of one-character strings, so that os.path.*,      *)
(* str.split and the "%02i" format are computed and not assumed.  A        *)
(* container is a function from absolute paths (sequences of segments) to  *)
(* nodes; the root group is the empty path.                                *)
(***************************************************************************)
EXTENDS Integers, Sequences, FiniteSets, TLC

(* ------------------------------ bounds --------------------------------- *)
\* number of library calls made in one behaviour
MaxOps == 2
\* largest number of tables in a table set handed to write_set
MaxTables == 2

\* the number of calls made on a file and on objects that are already there
MaxCalls == 1

(* ------------------------------ strings -------------------------------- *)
EmptyMap == [k \in {} |-> 0]

Slash == "/"

\* index of the last "/" of s, 0 when there is none (str.rfind('/') + 1)
RECURSIVE rfindSlash(_, _)
rfindSlash(s, i) ==
    IF i = 0 THEN 0
    ELSE IF s[i] = Slash THEN i ELSE rfindSlash(s, i - 1)

AllSlashes(s) == \A i \in 1..Len(s) : s[i] = Slash

\* s.rstrip('/')
RECURSIVE rstripSlash(_)
rstripSlash(s) ==
    IF s # <<>> /\ s[Len(s)] = Slash
    THEN rstripSlash(SubSeq(s, 1, Len(s) - 1))
    ELSE s

\* os.path.basename (posixpath): what follows the last '/'
basename(s) == SubSeq(s, rfindSlash(s, Len(s)) + 1, Len(s))

\* os.path.dirname (posixpath): what precedes the last '/', without
\* trailing slashes unless it consists of slashes only
dirname(s) ==
    LET head == SubSeq(s, 1, rfindSlash(s, Len(s)))
    IN  IF head # <<>> /\ ~AllSlashes(head) THEN rstripSlash(head) ELSE head

\* str.split('/'): the pieces between the slashes, empty pieces included
RECURSIVE split(_, _)
split(s, cur) ==
    IF s = <<>> THEN <<cur>>
    ELSE IF Head(s) = Slash THEN <<cur>> \o split(Tail(s), <<>>)
    ELSE split(Tail(s), Append(cur, Head(s)))

Digits == <<"0", "1", "2", "3", "4", "5", "6", "7", "8", "9">>

\* "%i" % n for n >= 0
RECURSIVE fmtInt(_)
fmtInt(n) ==
    IF n < 10 THEN <<Digits[n + 1]>>
    ELSE Append(fmtInt(n \div 10), Digits[(n % 10) + 1])

\* "%02i" % n: at least two digits, padded with zeros on the left
fmt02i(n) ==
    LET d == fmtInt(n) IN IF Len(d) < 2 THEN <<"0">> \o d ELSE d

TableLiteral == <<"T", "a", "b", "l", "e">>

\* "Table_%02i" % i
TableIndexed(i) == TableLiteral \o <<"_">> \o fmt02i(i)

(* ----------------------- the container backend ------------------------- *)
\* h5py resolves a name relative to a group segment by segment; empty
\* segments (doubled or trailing slashes) are skipped
PathOf(s) == SelectSeq(split(s, <<>>), LAMBDA seg : seg # <<>>)

GroupNode(attrs) == [kind |-> "group", attrs |-> attrs, data |-> EmptyMap]
DatasetNode(data, attrs) == [kind |-> "dataset", attrs |-> attrs, data |-> data]

\* a container right after h5py.File(filename, 'w'): the root group only
FreshTree == (<<>> :> GroupNode(EmptyMap))

\* Group.__contains__(name)
Contains(tree, base, s) == (base \o PathOf(s)) \in DOMAIN tree

\* Group.keys(): the names of the direct members
Keys(tree, base) ==
    { p[Len(p)] : p \in { q \in DOMAIN tree :
                            /\ Len(q) = Len(base) + 1
                            /\ SubSeq(q, 1, Len(base)) = base } }

IsGroup(tree, p) == p \in DOMAIN tree /\ tree[p].kind = "group"
IsDataset(tree, p) == p \in DOMAIN tree /\ tree[p].kind = "dataset"

Prefixes(p) == { SubSeq(p, 1, i) : i \in 0..Len(p) }
ProperPrefixes(p) == { SubSeq(p, 1, i) : i \in 0..(Len(p) - 1) }

\* a link can be created at p: nothing is there yet, and nothing on the
\* way to p is a dataset
CanCreate(tree, p) ==
    /\ p \notin DOMAIN tree
    /\ \A q \in ProperPrefixes(p) : q \in DOMAIN tree => tree[q].kind = "group"

\* the missing groups on the way to p are created with the link
WithParents(tree, p) ==
    [q \in (ProperPrefixes(p) \ DOMAIN tree) |-> GroupNode(EmptyMap)] @@ tree

\* Group.create_group(name): ok is FALSE when the backend raises
create_group(tree, base, s) ==
    LET p == base \o PathOf(s)
    IN  IF CanCreate(tree, p) /\ IsGroup(tree, base)
        THEN [ok |-> TRUE, tree |-> (p :> GroupNode(EmptyMap)) @@ WithParents(tree, p), at |-> p]
        ELSE [ok |-> FALSE, tree |-> tree, at |-> base]

\* Group.create_dataset(name, data=...)
create_dataset(tree, base, s, data) ==
    LET p == base \o PathOf(s)
    IN  IF CanCreate(tree, p) /\ IsGroup(tree, base)
        THEN [ok |-> TRUE, tree |-> (p :> DatasetNode(data, EmptyMap)) @@ WithParents(tree, p), at |-> p]
        ELSE [ok |-> FALSE, tree |-> tree, at |-> base]

\* node.attrs[keyword] = value, for every keyword of kw
SetAttrs(tree, p, kw) ==
    [tree EXCEPT ![p] = [@ EXCEPT !.attrs = kw @@ tree[p].attrs]]

\* Group.visit(list.append): the relative paths of all descendants
VisitNames(tree, base) ==
    { SubSeq(q, Len(base) + 1, Len(q)) :
        q \in { r \in DOMAIN tree : /\ Len(r) > Len(base)
                                    /\ SubSeq(r, 1, Len(base)) = base } }

\* the '/'-joined name of a relative path, as visit() reports it
RECURSIVE JoinPath(_)
JoinPath(p) ==
    IF p = <<>> THEN <<>>
    ELSE IF Len(p) = 1 THEN p[1]
    ELSE p[1] \o <<Slash>> \o JoinPath(Tail(p))

\* len(dataset): the number of records
RowCount(data) ==
    IF DOMAIN data = {} THEN 0 ELSE Len(data[CHOOSE c \in DOMAIN data : TRUE])

(* ------------------------------- state -------------------------------- *)
VARIABLES
    h5py_installed, \* the module-level flag set by the import
    disk,           \* the file of the given filename: exists, tree
    opened,         \* file objects the library opened and did not close()
    handle,         \* the caller's own handle: open, node
    tbl,            \* the Table that read() fills
    tset,           \* the TableSet that read_set() fills
    written,        \* what the write() or write_set() that made the file was given
    last,           \* the last call: arguments, state before, outcome
    ops             \* number of calls made

vars == <<h5py_installed, disk, opened, handle, tbl, tset, written, last, ops>>

(* --------------------------- the file system --------------------------- *)
NoTree == EmptyMap

\* os.remove(filename)
os_remove(d) == [exists |-> FALSE, tree |-> NoTree]

\* h5py.File(filename, mode) for mode 'a' (append) or 'w'
h5py_File(d, mode) ==
    IF mode = "a" /\ d.exists THEN d
    ELSE [exists |-> TRUE, tree |-> FreshTree]

(* --------------------------- the table model --------------------------- *)
\* Table.reset(): columns, keywords and name are dropped
reset(self) == [table_name |-> <<>>, data |-> EmptyMap, keywords |-> EmptyMap]

\* Table._setup_table(n, dtype): n zeroed rows for every named field
setup_table(n, names) == [c \in names |-> [i \in 1..n |-> 0]]

\* TableSet.reset()
reset_set(self) == [keywords |-> EmptyMap, tables |-> <<>>]

(* ------------------------ hdf5table.py, helpers ------------------------ *)
\* as check_h5py_installed, but the flag is not consulted
check_h5py_skipped == TRUE

\* _check_h5py_installed: TRUE when it returns, FALSE when it raises
check_h5py_installed == h5py_installed

\* as open_mode, but the file is always created anew
open_mode_truncate(append) == "w"

\* lines 23-26: the mode _get_group opens the file in
open_mode(append) == IF append THEN "a" ELSE "w"

\* _get_group: opens the file and resolves the group option
get_group(d, group, append) ==
    LET f == h5py_File(d, open_mode(append))
    IN  IF group # <<>>
        THEN IF append /\ group \in Keys(f.tree, <<>>)
             THEN [ok |-> TRUE, disk |-> f, g |-> PathOf(group)]
             ELSE LET c == create_group(f.tree, <<>>, group)
                  IN  [ok |-> c.ok, disk |-> [f EXCEPT !.tree = c.tree], g |-> c.at]
        ELSE [ok |-> TRUE, disk |-> f, g |-> <<>>]

\* _create_required_groups: walks path segment by segment from g
RECURSIVE walk_groups(_, _, _)
walk_groups(tree, g, segs) ==
    IF segs = <<>> THEN [ok |-> TRUE, tree |-> tree]
    ELSE IF ~IsGroup(tree, g) THEN [ok |-> FALSE, tree |-> tree]
    ELSE IF ~Contains(tree, g, Head(segs))
         THEN LET c == create_group(tree, g, Head(segs))
              IN  IF c.ok THEN walk_groups(c.tree, c.at, Tail(segs))
                  ELSE [ok |-> FALSE, tree |-> tree]
         ELSE walk_groups(tree, g \o PathOf(Head(segs)), Tail(segs))

\* as create_required_groups, but the path is created in one call, whether
\* or not its segments exist
create_groups_unchecked(tree, g, path) ==
    LET c == create_group(tree, g, path) IN [ok |-> c.ok, tree |-> c.tree]

create_required_groups(tree, g, path) == walk_groups(tree, g, split(path, <<>>))

\* as list_tables, but the element type of a dataset is not looked at
list_all_datasets(tree, node) ==
    { JoinPath(item) : item \in
        { i \in VisitNames(tree, node) : IsDataset(tree, node \o i) } }

\* _list_tables: the names of the descendants that are record datasets;
\* the mapping built maps each name to itself, so its key set stands for it
list_tables(tree, node) ==
    { JoinPath(item) : item \in
        { i \in VisitNames(tree, node) :
            /\ IsDataset(tree, node \o i)
            /\ DOMAIN tree[node \o i].data # {} } }

(* ------------------------------- read ---------------------------------- *)
\* A file object is "None", "opened" (opened by the call in progress) or
\* "handle" (the caller's own).  File.close() on f:
File_close(f, o, hopen) ==
    IF f = "opened" THEN [opened |-> o - 1, hopen |-> hopen]
    ELSE [opened |-> o, hopen |-> FALSE]

ReadOut(result, detail, self, o, hopen, d) ==
    [result |-> result, detail |-> detail, self |-> self, opened |-> o,
     hopen |-> hopen, disk |-> d]

\* lines 90-96: f and g for a handle and for a filename that exists
read_handles(target) ==
    IF target.isHandle THEN [f |-> "None", g |-> target.node]
    ELSE [f |-> "opened", g |-> <<>>]

\* lines 106-116: name the table, allocate it, copy the columns, close
read_table(s1, d, g, tname, f, o1, hopen) ==
    LET s2   == [s1 EXCEPT !.table_name = tname]
        p    == g \o PathOf(tname)
        tree == d.tree
    IN  IF ~IsDataset(tree, p) \/ DOMAIN tree[p].data = {}
        THEN ReadOut("BackendError", {}, s2, o1, hopen, d)
        ELSE LET src   == tree[p].data
                 alloc == setup_table(RowCount(src), DOMAIN src)
                 s3    == [s2 EXCEPT !.data = [c \in DOMAIN alloc |->
                                [i \in DOMAIN alloc[c] |-> src[c][i]]]]
                 fin   == IF f # "None" THEN File_close(f, o1, hopen)
                          ELSE [opened |-> o1, hopen |-> hopen]
             IN  ReadOut("OK", {}, s3, fin.opened, fin.hopen, d)

\* as unique_table, but any non-empty discovery is accepted
some_table(tables) == Cardinality(tables) >= 1

\* line 101: discovery found exactly one table
unique_table(tables) == Cardinality(tables) = 1

\* as file_found, but the filename is not looked up
file_found_unchecked(d) == TRUE

\* line 93: os.path.exists(filename)
file_found(d) == d.exists

\* read(self, filename, table)
read(self, target, table, d, o, hopen) ==
    IF ~check_h5py_installed THEN ReadOut("CapabilityError", {}, self, o, hopen, d)
    ELSE
    LET s1 == reset(self)
    IN  IF ~target.isHandle /\ ~file_found(d)
        THEN ReadOut("FileNotFound", {}, s1, o, hopen, d)
        ELSE
        LET fg     == read_handles(target)
            o1     == IF target.isHandle THEN o ELSE o + 1
            \* line 95: h5py.File(filename), in the default mode
            d1     == IF target.isHandle THEN d ELSE h5py_File(d, "a")
            tables == list_tables(d1.tree, fg.g)
        IN  IF table.isNone
            THEN IF unique_table(tables)
                 THEN read_table(s1, d1, fg.g, CHOOSE t \in tables : TRUE,
                                 fg.f, o1, hopen)
                 ELSE ReadOut("TableException", tables, s1, o1, hopen, d1)
            ELSE read_table(s1, d1, fg.g, table.name, fg.f, o1, hopen)

(* ------------------------------ read_set ------------------------------- *)
SetOut(result, self, o, d) ==
    [result |-> result, self |-> self, opened |-> o, disk |-> d]

Filename == [isHandle |-> FALSE, node |-> <<>>]
NoTable == [isNone |-> TRUE, name |-> <<>>]
Named(n) == [isNone |-> FALSE, name |-> n]

\* lines 138-141: one read() per discovered table, in iteration order
RECURSIVE read_each(_, _, _, _)
read_each(self, order, d, o) ==
    IF order = <<>> THEN SetOut("OK", self, o, d)
    ELSE LET r == read(reset(EmptyMap), Filename, Named(Head(order)), d, o, FALSE)
         IN  IF r.result # "OK" THEN SetOut(r.result, self, r.opened, r.disk)
             ELSE read_each([self EXCEPT !.tables = Append(@, r.self)],
                            Tail(order), r.disk, r.opened)

\* read_set(self, filename); order is the iteration order of the mapping
\* that _list_tables returned
read_set(self, order, d, o) ==
    IF ~check_h5py_installed THEN SetOut("CapabilityError", self, o, d)
    ELSE
    LET s1 == reset_set(self)
    IN  \* line 133: mode 'r' does not create a missing file
        IF ~d.exists THEN SetOut("BackendError", s1, o, d)
        ELSE LET s2 == [s1 EXCEPT !.keywords = d.tree[<<>>].attrs @@ @]
                 \* line 133 and line 136: opened and closed again
                 o1 == File_close("opened", o + 1, FALSE).opened
             IN  \* line 138: opened for discovery and not closed
                 read_each(s2, order, h5py_File(d, "a"), o1 + 1)

(* ------------------------------- write --------------------------------- *)
\* removed: os.remove ran; failedAt: index of the table write_set failed on
WriteOut(result, d, o, hopen, removed, failedAt) ==
    [result |-> result, disk |-> d, opened |-> o, hopen |-> hopen,
     removed |-> removed, failedAt |-> failedAt]

\* as name_taken, but only the leaf of the name is looked up
name_taken_leaf(tree, g, name) == basename(name) \in Keys(tree, g)

\* line 210: the existence check of write()
name_taken(tree, g, name) == name \in Keys(tree, g)

\* as dataset_name, but ignore_groups is not looked at
dataset_name_full(name0, ignore_groups) == name0

\* lines 203-204: the name the dataset is created under
dataset_name(name0, ignore_groups) ==
    IF ignore_groups THEN basename(name0) ELSE name0

\* lines 198-219: name the dataset, create the groups of its directory
\* portion, check that the name is free, create the dataset, attach the
\* keywords, close
write_table(self, d, g, ignore_groups, f, o, hopen, removed) ==
    LET name0 == IF self.table_name # <<>> THEN self.table_name ELSE TableLiteral
        name  == dataset_name(name0, ignore_groups)
        path  == dirname(name0)
        cr    == IF ~ignore_groups /\ path # <<>>
                 THEN create_required_groups(d.tree, g, path)
                 ELSE [ok |-> TRUE, tree |-> d.tree]
        d1    == [d EXCEPT !.tree = cr.tree]
    IN  IF ~cr.ok \/ ~IsGroup(cr.tree, g)
        THEN WriteOut("BackendError", d1, o, hopen, removed, 0)
        ELSE IF name_taken(cr.tree, g, name)
        THEN WriteOut("TableExists", d1, o, hopen, removed, 0)
        ELSE LET c == create_dataset(cr.tree, g, name, self.data)
                 fin == IF f # "None" THEN File_close(f, o, hopen)
                        ELSE [opened |-> o, hopen |-> hopen]
             IN  IF ~c.ok THEN WriteOut("BackendError", d1, o, hopen, removed, 0)
                 ELSE WriteOut("OK",
                               [d EXCEPT !.tree = SetAttrs(c.tree, c.at, self.keywords)],
                               fin.opened, fin.hopen, removed, 0)

\* lines 182-188: the group option under a handle given by the caller
handle_group(tree, node, group) ==
    IF group # <<>>
    THEN IF Contains(tree, node, group)
         THEN [ok |-> TRUE, tree |-> tree, at |-> node \o PathOf(group)]
         ELSE create_group(tree, node, group)
    ELSE [ok |-> TRUE, tree |-> tree, at |-> node]

\* as exists_policy, but an existing file is never an error
exists_policy_unchecked(d, append, overwrite) ==
    IF d.exists /\ ~append /\ overwrite THEN "remove" ELSE "keep"

\* lines 190-194: the policy for a filename that exists
\* "raise", "remove" or "keep"
exists_policy(d, append, overwrite) ==
    IF d.exists /\ ~append
    THEN IF overwrite THEN "remove" ELSE "raise"
    ELSE "keep"

\* as write_file_object, but the caller's handle is kept in f
write_file_object_borrowed(target) == IF target.isHandle THEN "handle" ELSE "opened"

\* line 183 and line 196: the file object that write() closes at the end
write_file_object(target) == IF target.isHandle THEN "None" ELSE "opened"

\* write(self, filename, group, append, overwrite, ignore_groups)
write(self, target, group, append, overwrite, ignore_groups, d, o, hopen) ==
    IF ~check_h5py_installed THEN WriteOut("CapabilityError", d, o, hopen, FALSE, 0)
    ELSE IF target.isHandle
    THEN LET r == handle_group(d.tree, target.node, group)
         IN  IF ~r.ok THEN WriteOut("BackendError", d, o, hopen, FALSE, 0)
             ELSE write_table(self, [d EXCEPT !.tree = r.tree], r.at,
                              ignore_groups, write_file_object(target), o,
                              hopen, FALSE)
    ELSE LET pol == exists_policy(d, append, overwrite)
         IN  IF pol = "raise" THEN WriteOut("FileExists", d, o, hopen, FALSE, 0)
             ELSE LET d1 == IF pol = "remove" THEN os_remove(d) ELSE d
                      gg == get_group(d1, group, append)
                  IN  IF ~gg.ok
                      THEN WriteOut("BackendError", gg.disk, o + 1, hopen,
                                    pol = "remove", 0)
                      ELSE write_table(self, gg.disk, gg.g, ignore_groups,
                                       write_file_object(target), o + 1,
                                       hopen, pol = "remove")

(* ------------------------------ write_set ------------------------------ *)
\* line 280: the existence check of write_set()
set_name_taken(tree, g, name) == name \in Keys(tree, g)

\* lines 266-286: the tables of the set in stored order, i counting from 0
RECURSIVE write_each(_, _, _, _, _, _, _)
write_each(tables, i, d, g, ignore_groups, o, removed) ==
    IF i >= Len(tables)
    THEN WriteOut("OK", d, File_close("opened", o, FALSE).opened, FALSE, removed, i)
    ELSE
    LET t     == tables[i + 1]
        name0 == IF t.table_name # <<>> THEN t.table_name ELSE TableIndexed(i)
        name  == dataset_name(name0, ignore_groups)
        path  == dirname(name0)
        cr    == IF ~ignore_groups /\ path # <<>>
                 THEN create_required_groups(d.tree, g, path)
                 ELSE [ok |-> TRUE, tree |-> d.tree]
        d1    == [d EXCEPT !.tree = cr.tree]
    IN  IF ~cr.ok \/ ~IsGroup(cr.tree, g)
        THEN WriteOut("BackendError", d1, o, FALSE, removed, i)
        ELSE IF set_name_taken(cr.tree, g, name)
        THEN WriteOut("TableExists", d1, o, FALSE, removed, i)
        ELSE LET c == create_dataset(cr.tree, g, name, t.data)
             IN  IF ~c.ok THEN WriteOut("BackendError", d1, o, FALSE, removed, i)
                 ELSE write_each(tables, i + 1,
                                 [d EXCEPT !.tree = SetAttrs(c.tree, c.at, t.keywords)],
                                 g, ignore_groups, o, removed)

\* as set_exists_policy, but overwrite is looked at before append
set_exists_policy_overwrite_first(d, append, overwrite) ==
    IF d.exists /\ overwrite THEN "remove"
    ELSE IF d.exists /\ ~append THEN "raise"
    ELSE "keep"

\* lines 255-259: the policy for a filename that exists
set_exists_policy(d, append, overwrite) ==
    IF d.exists /\ ~append
    THEN IF overwrite THEN "remove" ELSE "raise"
    ELSE "keep"

\* write_set(self, filename, group, append, overwrite, ignore_groups)
write_set(self, group, append, overwrite, ignore_groups, d, o) ==
    IF ~check_h5py_installed THEN WriteOut("CapabilityError", d, o, FALSE, FALSE, 0)
    ELSE LET pol == set_exists_policy(d, append, overwrite)
         IN  IF pol = "raise" THEN WriteOut("FileExists", d, o, FALSE, FALSE, 0)
             ELSE LET d1 == IF pol = "remove" THEN os_remove(d) ELSE d
                      gg == get_group(d1, group, append)
                  IN  IF ~gg.ok
                      THEN WriteOut("BackendError", gg.disk, o + 1, FALSE,
                                    pol = "remove", 0)
                      ELSE write_each(self.tables, 0,
                              [gg.disk EXCEPT !.tree = SetAttrs(@, gg.g, self.keywords)],
                              gg.g, ignore_groups, o + 1, pol = "remove")

(* ------------------------------ inputs --------------------------------- *)
Data1 == ("x" :> <<1, 2>>)
Data2 == ("x" :> <<3>>) @@ ("y" :> <<4>>)
Kw0 == EmptyMap
Kw1 == ("k" :> 1)

NameT == <<"T">>
NameAT == <<"a", "/", "T">>
NameTable01 == <<"T", "a", "b", "l", "e", "_", "0", "1">>
GroupG == <<"g">>

Tbl(name, data, kw) == [table_name |-> name, data |-> data, keywords |-> kw]

\* the tables handed to write()
Tables ==
    { Tbl(<<>>, Data1, Kw0), Tbl(NameT, Data1, Kw1), Tbl(NameAT, Data2, Kw1) }

\* the tables of the table sets handed to write_set(): one without a
\* name, one that bears the fallback name of position 1
Unnamed == Tbl(<<>>, Data1, Kw0)
SetTables == { Unnamed, Tbl(NameTable01, Data2, Kw1) }

RECURSIVE SeqsUpTo(_, _)
SeqsUpTo(S, n) ==
    IF n = 0 THEN {<<>>}
    ELSE LET shorter == SeqsUpTo(S, n - 1)
         IN  shorter \cup { Append(q, x) : q \in { r \in shorter : Len(r) = n - 1 }, x \in S }

\* the table sets handed to write_set(): up to MaxTables tables, unnamed
\* but for the first
TableSets ==
    { [keywords |-> Kw1, tables |-> q] :
        q \in { r \in SeqsUpTo(SetTables, MaxTables) :
                  \A i \in 2..Len(r) : r[i] = Unnamed } }

\* the table names of the sets have no directory portion, which leaves
\* ignore_groups without effect on them
SetIgnoreGroups == {FALSE}

Groups == { <<>>, GroupG }
TableArgs == { NoTable, Named(NameT) }

\* the orders in which a mapping with key set S can be iterated
Orders(S) ==
    { q \in SeqsUpTo(S, Cardinality(S)) :
        Len(q) = Cardinality(S) /\ { q[i] : i \in DOMAIN q } = S }

(* ------------------------------ actions -------------------------------- *)
EmptyTable == reset(EmptyMap)
EmptySet == reset_set(EmptyMap)
NoHandle == [open |-> FALSE, node |-> <<>>]

Args(target, table, wtable, wset, group, append, overwrite, ignore_groups) ==
    [target |-> target, table |-> table, wtable |-> wtable, wset |-> wset,
     group |-> group, append |-> append, overwrite |-> overwrite,
     ignore_groups |-> ignore_groups]

NoArgs == Args(Filename, NoTable, EmptyTable, EmptySet, <<>>, FALSE, FALSE, FALSE)

Pre == [disk |-> disk, opened |-> opened, handle |-> handle, tbl |-> tbl, tset |-> tset]

Call(op, args, result, detail, removed, failedAt) ==
    [op |-> op, args |-> args, result |-> result, detail |-> detail,
     removed |-> removed, failedAt |-> failedAt, pre |-> Pre]

NoCall == [op |-> "none", args |-> NoArgs, result |-> "none", detail |-> {},
           removed |-> FALSE, failedAt |-> 0,
           pre |-> [disk |-> [exists |-> FALSE, tree |-> NoTree], opened |-> 0,
                    handle |-> NoHandle, tbl |-> EmptyTable, tset |-> EmptySet]]

\* the file is not what a single write() or write_set() made of a missing
\* file; valid: write() made it of table; set_valid: write_set() made it
\* of set, under the group option group
NotWritten == [valid |-> FALSE, table |-> EmptyTable,
               set_valid |-> FALSE, set |-> EmptySet, group |-> <<>>]

\* the caller's handle after a call that left it open or closed it
HandleAfter(hopen) == IF hopen THEN handle ELSE NoHandle

Init ==
    /\ h5py_installed \in BOOLEAN
    /\ disk = [exists |-> FALSE, tree |-> NoTree]
    /\ opened = 0
    /\ handle = NoHandle
    /\ tbl = EmptyTable
    /\ tset = EmptySet
    /\ written = NotWritten
    /\ last = NoCall
    /\ ops = 0

\* the targets a caller can pass: the filename, or its handle while open
Targets == {Filename} \cup
           (IF handle.open THEN {[isHandle |-> TRUE, node |-> handle.node]} ELSE {})

\* the caller opens the file itself and keeps a file or group handle
CallerOpen ==
    /\ h5py_installed
    /\ ~handle.open
    /\ disk' = h5py_File(disk, "a")
    /\ \E node \in { p \in DOMAIN disk'.tree : IsGroup(disk'.tree, p) } :
          handle' = [open |-> TRUE, node |-> node]
    /\ last' = NoCall
    /\ written' = NotWritten
    /\ UNCHANGED <<h5py_installed, opened, tbl, tset, ops>>

CallerClose ==
    /\ handle.open
    /\ handle' = NoHandle
    /\ last' = NoCall
    /\ UNCHANGED <<h5py_installed, disk, opened, tbl, tset, written, ops>>

\* the actions take the number of calls allowed and the inputs to draw
ReadWithin(n, Tgts) ==
    /\ ops < n
    /\ \E target \in Tgts, table \in TableArgs :
          \E r \in {read(tbl, target, table, disk, opened, handle.open)} :
              /\ tbl' = r.self
              /\ disk' = r.disk
              /\ opened' = r.opened
              /\ handle' = HandleAfter(r.hopen)
              /\ last' = Call("read",
                              [NoArgs EXCEPT !.target = target, !.table = table],
                              r.result, r.detail, FALSE, 0)
    /\ ops' = ops + 1
    /\ UNCHANGED <<h5py_installed, tset, written>>

Read == ReadWithin(MaxOps, Targets)

ReadSetWithin(n) ==
    /\ ops < n
    /\ \E order \in Orders(IF disk.exists THEN list_tables(disk.tree, <<>>) ELSE {}) :
          \E r \in {read_set(tset, order, disk, opened)} :
              /\ tset' = r.self
              /\ disk' = r.disk
              /\ opened' = r.opened
              /\ last' = Call("read_set", NoArgs, r.result, {}, FALSE, 0)
    /\ ops' = ops + 1
    /\ UNCHANGED <<h5py_installed, handle, tbl, written>>

ReadSet == ReadSetWithin(MaxOps)

\* the call removes the file of the given name; callers close their own
\* handle on a file before they have it replaced
Replaces(target, append, overwrite) ==
    ~target.isHandle /\ disk.exists /\ ~append /\ overwrite

WriteWithin(n, Tbls, Tgts, Grps, Appends, Overwrites) ==
    /\ ops < n
    /\ \E self \in Tbls, target \in Tgts, group \in Grps,
          append \in Appends, overwrite \in Overwrites, ignore_groups \in BOOLEAN :
          /\ target.isHandle => ~append /\ ~overwrite
          /\ overwrite => disk.exists
          /\ handle.open => ~Replaces(target, append, overwrite)
          /\ \E r \in {write(self, target, group, append, overwrite,
                             ignore_groups, disk, opened, handle.open)} :
                 /\ disk' = r.disk
                 /\ opened' = r.opened
                 /\ handle' = HandleAfter(r.hopen)
                 /\ written' = IF /\ r.result = "OK"
                                  /\ ~target.isHandle
                                  /\ (~disk.exists \/ r.removed)
                               THEN [NotWritten EXCEPT !.valid = TRUE,
                                                       !.table = self]
                               ELSE NotWritten
                 /\ last' = Call("write",
                                 Args(target, NoTable, self, EmptySet, group,
                                      append, overwrite, ignore_groups),
                                 r.result, {}, r.removed, 0)
    /\ ops' = ops + 1
    /\ UNCHANGED <<h5py_installed, tbl, tset>>

Write == WriteWithin(MaxOps, Tables, Targets, Groups, BOOLEAN, BOOLEAN)

WriteSetWithin(n, Sets, Grps, Appends, Overwrites, IgnoreGroups) ==
    /\ ops < n
    /\ \E self \in Sets, group \in Grps,
          append \in Appends, overwrite \in Overwrites, ignore_groups \in IgnoreGroups :
          /\ overwrite => disk.exists
          /\ handle.open => ~Replaces(Filename, append, overwrite)
          /\ \E r \in {write_set(self, group, append, overwrite,
                                 ignore_groups, disk, opened)} :
                 /\ disk' = r.disk
                 /\ opened' = r.opened
                 /\ written' = IF r.result = "OK" /\ (~disk.exists \/ r.removed)
                               THEN [NotWritten EXCEPT !.set_valid = TRUE,
                                                       !.set = self,
                                                       !.group = group]
                               ELSE NotWritten
                 /\ last' = Call("write_set",
                                 Args(Filename, NoTable, EmptyTable, self, group,
                                      append, overwrite, ignore_groups),
                                 r.result, {}, r.removed, r.failedAt)
    /\ ops' = ops + 1
    /\ UNCHANGED <<h5py_installed, handle, tbl, tset>>

WriteSet ==
    WriteSetWithin(MaxOps, TableSets, Groups, BOOLEAN, BOOLEAN, SetIgnoreGroups)

Next == CallerOpen \/ CallerClose \/ Read \/ ReadSet \/ Write \/ WriteSet

Spec == Init /\ [][Next]_vars

(* ------------------------- notions of the claims ----------------------- *)
IsFileWrite == last.op \in {"write", "write_set"} /\ ~last.args.target.isHandle

\* the container as the last write or write_set found it once opened:
\* the old tree for a handle or an appended file, nothing otherwise
OpenedTree ==
    IF last.args.target.isHandle \/ (last.args.append /\ last.pre.disk.exists)
    THEN last.pre.disk.tree
    ELSE NoTree

\* the group the last write or write_set wrote under
TargetGroup ==
    (IF last.args.target.isHandle THEN last.args.target.node ELSE <<>>)
        \o PathOf(last.args.group)

\* the final name of table t: the leaf when ignore_groups is set
FinalName(t, fallback) ==
    LET n == IF t.table_name # <<>> THEN t.table_name ELSE fallback
    IN  IF last.args.ignore_groups THEN basename(n) ELSE n

\* a dataset exists at the final name of t under the target group
Clash(t, fallback) ==
    IsDataset(OpenedTree, TargetGroup \o PathOf(FinalName(t, fallback)))

RecordDatasets(tree) ==
    { p \in DOMAIN tree : tree[p].kind = "dataset" /\ DOMAIN tree[p].data # {} }

(* ---------------- the helpers, called on a caller's handle -------------- *)
PathA == <<"a">>
PathAB == <<"a", "/", "b">>
PathABC == <<"a", "/", "b", "/", "c">>
Paths == { PathA, PathAB, PathABC }

\* the names of the datasets without named fields that the caller creates
PlainNames == { <<"r">>, PathAB }
PlainData == EmptyMap

HandleTargets == Targets \ {Filename}

\* _create_required_groups(g, path) on the caller's handle g; the path is
\* recorded as the group argument
EnsurePath ==
    /\ ops < MaxOps
    /\ handle.open
    /\ \E path \in Paths :
        \E r \in {create_required_groups(disk.tree, handle.node, path)} :
            /\ disk' = [disk EXCEPT !.tree = r.tree]
            /\ last' = Call("create_required_groups",
                            Args([isHandle |-> TRUE, node |-> handle.node], NoTable,
                                 EmptyTable, EmptySet, path, FALSE, FALSE, FALSE),
                            IF r.ok THEN "OK" ELSE "BackendError", {}, FALSE, 0)
    /\ written' = NotWritten
    /\ ops' = ops + 1
    /\ UNCHANGED <<h5py_installed, opened, handle, tbl, tset>>

\* _list_tables(node) on the caller's handle; the names are the detail;
\* the call changes nothing, and is not counted
ListTables ==
    /\ handle.open
    /\ last' = Call("list_tables",
                    Args([isHandle |-> TRUE, node |-> handle.node], NoTable,
                         EmptyTable, EmptySet, <<>>, FALSE, FALSE, FALSE),
                    "OK", list_tables(disk.tree, handle.node), FALSE, 0)
    /\ UNCHANGED <<h5py_installed, disk, opened, handle, tbl, tset, written, ops>>

\* the caller stores an array without named fields through its handle
CallerDataset ==
    /\ ops < MaxOps
    /\ handle.open
    /\ \E name \in PlainNames :
        \E c \in {create_dataset(disk.tree, handle.node, name, PlainData)} :
            /\ c.ok
            /\ disk' = [disk EXCEPT !.tree = c.tree]
    /\ last' = NoCall
    /\ written' = NotWritten
    /\ ops' = ops + 1
    /\ UNCHANGED <<h5py_installed, opened, handle, tbl, tset>>

\* write() on the caller's handle
WriteOnHandle ==
    WriteWithin(MaxOps, Tables, HandleTargets, Groups, {FALSE}, {FALSE})

NextPaths ==
    CallerOpen \/ CallerClose \/ EnsurePath \/ ListTables \/ CallerDataset
        \/ WriteOnHandle

SpecPaths == Init /\ [][NextPaths]_vars

(* ------------- tables named by a path, groups given by a path ----------- *)
NameABT == <<"a", "/", "b", "/", "T">>

PathTables == { Tbl(NameAT, Data2, Kw1), Tbl(NameABT, Data1, Kw0) }

\* the table sets of up to MaxTables of these tables, none of them twice
PathSets ==
    { [keywords |-> Kw1, tables |-> q] :
        q \in { r \in SeqsUpTo(PathTables, MaxTables) :
                  \A i, j \in 1..Len(r) : r[i] = r[j] => i = j } }

PathGroups == { <<>>, GroupG, PathAB }

WriteNamed ==
    WriteWithin(MaxOps, PathTables, {Filename}, PathGroups, BOOLEAN, {FALSE})

WriteSetNamed ==
    WriteSetWithin(MaxOps, PathSets, PathGroups, BOOLEAN, {FALSE}, BOOLEAN)

NextNames == WriteNamed \/ WriteSetNamed

SpecNames == Init /\ [][NextNames]_vars

(* ------------- calls on files and objects that are already there ------- *)
\* the file as earlier runs left it: missing, without a table, with the
\* table T, with the tables T and Table
FileEmpty == [exists |-> TRUE, tree |-> FreshTree]
FileOne ==
    [exists |-> TRUE,
     tree |-> (<< NameT >> :> DatasetNode(Data1, Kw1)) @@ FreshTree]
FileTwo ==
    [exists |-> TRUE,
     tree |-> (<< TableLiteral >> :> DatasetNode(Data2, Kw0)) @@ FileOne.tree]
PriorDisks == { [exists |-> FALSE, tree |-> NoTree], FileEmpty, FileOne, FileTwo }

\* the Table and the TableSet handed to read and read_set: new, or filled
PriorTables == { EmptyTable, Tbl(NameT, Data1, Kw1) }
PriorSets == { EmptySet, [keywords |-> Kw1, tables |-> << Tbl(NameT, Data1, Kw1) >>] }

InitExisting ==
    /\ h5py_installed \in BOOLEAN
    /\ disk \in PriorDisks
    /\ opened = 0
    /\ handle = NoHandle
    /\ tbl \in PriorTables
    /\ tset \in PriorSets
    /\ written = NotWritten
    /\ last = NoCall
    /\ ops = 0

ReadExisting == ReadWithin(MaxCalls, {Filename})
ReadSetExisting == ReadSetWithin(MaxCalls)
WriteExisting == WriteWithin(MaxCalls, Tables, {Filename}, Groups, BOOLEAN, BOOLEAN)
WriteSetExisting ==
    WriteSetWithin(MaxCalls, TableSets, Groups, BOOLEAN, BOOLEAN, SetIgnoreGroups)

NextExisting == ReadExisting \/ ReadSetExisting \/ WriteExisting \/ WriteSetExisting

SpecExisting == InitExisting /\ [][NextExisting]_vars

(* ------------------------------- claims -------------------------------- *)
\* C1: after write(t, f) to a fresh file, read(t2, f) without a table name
\* succeeds and leaves t2 with the rows, the column names, the column data
\* and the keywords of t.
C1_RoundTrip ==
    (/\ last.op = "read"
     /\ ~last.args.target.isHandle
     /\ last.args.table.isNone
     /\ written.valid)
    => /\ last.result = "OK"
       /\ RowCount(tbl.data) = RowCount(written.table.data)
       /\ DOMAIN tbl.data = DOMAIN written.table.data
       /\ tbl.data = written.table.data
       /\ tbl.keywords = written.table.keywords

\* C2: a write, or a step of write_set, that finds a dataset at the resolved
\* final name under the target group fails with the 'Table ... already
\* exists' error of the existence check and changes nothing.
C2_NonClobber ==
    /\ (last.op = "write" /\ Clash(last.args.wtable, TableLiteral))
       => last.result = "TableExists" /\ disk = last.pre.disk
    /\ \A i \in 0..(MaxTables - 1) :
        (/\ last.op = "write_set"
         /\ i < Len(last.args.wset.tables)
         /\ Clash(last.args.wset.tables[i + 1], TableIndexed(i)))
        => /\ last.failedAt <= i
           /\ last.failedAt = i =>
                /\ last.result = "TableExists"
                /\ \A p \in RecordDatasets(OpenedTree) :
                      p \in DOMAIN disk.tree /\ disk.tree[p] = OpenedTree[p]

\* C3: a handle given to read or write by the caller is still open after
\* the call, however the call ends.
C3_BorrowedStaysOpen ==
    (last.op \in {"read", "write"} /\ last.args.target.isHandle) => handle.open

C3_Witness ==
    /\ last.op = "write" /\ last.args.target.isHandle
    /\ last.result = "TableExists"
    /\ handle.open

\* C4: read, read_set, write and write_set on a filename that end with the
\* discovery error or with 'Table ... already exists' have closed the file
\* handle they opened.
C4_ClosedOnError ==
    (/\ last.op \in {"read", "read_set", "write", "write_set"}
     /\ ~last.args.target.isHandle
     /\ last.result \in {"TableException", "TableExists"})
    => opened = last.pre.opened

\* C5: read, read_set, write and write_set on a filename that return
\* normally leave as many open handles on the file as they found.
C5_ClosedOnSuccess ==
    (/\ last.op \in {"read", "read_set", "write", "write_set"}
     /\ ~last.args.target.isHandle
     /\ last.result = "OK")
    => opened = last.pre.opened

\* the node the last read ran discovery under
DiscoveryNode == IF last.args.target.isHandle THEN last.args.target.node ELSE <<>>

\* the names of the record datasets below that node, before the call
Discovered ==
    { JoinPath(SubSeq(p, Len(DiscoveryNode) + 1, Len(p))) :
        p \in { q \in RecordDatasets(last.pre.disk.tree) :
                  /\ Len(q) > Len(DiscoveryNode)
                  /\ SubSeq(q, 1, Len(DiscoveryNode)) = DiscoveryNode } }

\* C6: read without a table name succeeds exactly when one record dataset
\* lies under the target node; it then reads that dataset and takes its
\* full path as table_name; otherwise it fails with a TableException that
\* carries exactly the names discovered.
C6_DiscoveryAmbiguity ==
    (/\ last.op = "read"
     /\ last.args.table.isNone
     /\ last.result \notin {"CapabilityError", "FileNotFound"})
    => /\ (last.result = "OK") <=> (Cardinality(Discovered) = 1)
       /\ last.result = "OK" =>
            /\ tbl.table_name \in Discovered
            /\ tbl.data = last.pre.disk.tree[DiscoveryNode \o PathOf(tbl.table_name)].data
       /\ last.result # "OK" =>
            /\ last.result = "TableException"
            /\ last.detail = Discovered

C6_Witness ==
    /\ last.op = "read" /\ last.args.table.isNone
    /\ last.result = "TableException"
    /\ Cardinality(last.detail) = 2

MissingFile == [exists |-> FALSE, tree |-> NoTree]

\* the outcome of the last write or write_set had the file been missing
OnMissingFile ==
    IF last.op = "write"
    THEN write(last.args.wtable, last.args.target, last.args.group,
               last.args.append, last.args.overwrite, last.args.ignore_groups,
               MissingFile, last.pre.opened, last.pre.handle.open)
    ELSE write_set(last.args.wset, last.args.group, last.args.append,
                   last.args.overwrite, last.args.ignore_groups,
                   MissingFile, last.pre.opened)

\* C7: write and write_set on a filename that exists, with append=False:
\* without overwrite the call fails with 'File exists' and the file is
\* untouched; with overwrite the file is removed first, so that the
\* container is what the same call makes of a missing file and holds
\* nothing of the old one.
C7_ExclusivePolicy ==
    (/\ IsFileWrite
     /\ h5py_installed
     /\ last.pre.disk.exists
     /\ ~last.args.append)
    => IF ~last.args.overwrite
       THEN last.result = "FileExists" /\ disk = last.pre.disk
       ELSE /\ last.result # "FileExists"
            /\ last.removed
            /\ disk = OnMissingFile.disk

C7_Witness ==
    /\ IsFileWrite /\ ~last.args.append /\ last.args.overwrite
    /\ RecordDatasets(last.pre.disk.tree) # {}
    /\ last.removed
    /\ last.result = "OK"

\* C8: a write or write_set with append=True on a filename keeps every
\* group and dataset of the file, with its data, whether the call succeeds
\* or fails, and leaves a file behind when there was none.
C8_AppendPreserves ==
    (IsFileWrite /\ h5py_installed /\ last.args.append)
    => /\ disk.exists
       /\ \A p \in DOMAIN last.pre.disk.tree :
            /\ p \in DOMAIN disk.tree
            /\ disk.tree[p].kind = last.pre.disk.tree[p].kind
            /\ disk.tree[p].data = last.pre.disk.tree[p].data

C8_Witness ==
    /\ IsFileWrite /\ last.args.append
    /\ RecordDatasets(last.pre.disk.tree) # {}
    /\ last.result = "OK"
    /\ RecordDatasets(disk.tree) # RecordDatasets(last.pre.disk.tree)

\* C9: a write that fails with 'File exists' or 'Table ... already exists'
\* leaves the container exactly as it was before the call.
C9_FailedWriteMutatesNothing ==
    (last.op = "write" /\ last.result \in {"FileExists", "TableExists"})
    => disk = last.pre.disk

C9_Witness ==
    /\ last.op = "write"
    /\ last.result = "TableExists"
    /\ last.args.group # <<>>
    /\ disk = last.pre.disk

\* the attributes of the target group in tree
GroupAttrs(tree) ==
    IF TargetGroup \in DOMAIN tree THEN tree[TargetGroup].attrs ELSE EmptyMap

\* C10: when write_set fails on one of its tables, the container holds no
\* dataset that the call created and none of the set's keywords.
C10_NoPartialSet ==
    (/\ last.op = "write_set"
     /\ last.result \notin {"OK", "CapabilityError", "FileExists"})
    => /\ RecordDatasets(disk.tree) \subseteq RecordDatasets(OpenedTree)
       /\ GroupAttrs(disk.tree) = GroupAttrs(OpenedTree)

\* the groups that the last _create_required_groups had to find or make:
\* one node per segment of the path, below the group it was given
Chain ==
    LET segs == PathOf(last.args.group)
    IN  { last.args.target.node \o SubSeq(segs, 1, i) : i \in 1..Len(segs) }

\* the same call, made once more on the tree the last one left
EnsuredAgain ==
    create_required_groups(disk.tree, last.args.target.node, last.args.group)

\* as stated: after every call each segment of the chain is a group
C11_OneGroupPerSegment ==
    (last.op = "create_required_groups")
    => /\ EnsuredAgain.tree = disk.tree
       /\ \A q \in Chain : IsGroup(disk.tree, q)

\* C11: _create_required_groups(g, p) called twice leaves the tree that one
\* call leaves and ends as the first call ended; every node that was there
\* is kept as it was; the nodes added are empty groups of the chain; after
\* a call that returns, every segment of the chain exists and is a group,
\* or the dataset that was there before; a call fails only on a dataset
\* in the way, and then creates nothing.
C11_PathIdempotent ==
    (last.op = "create_required_groups")
    => /\ EnsuredAgain.tree = disk.tree
       /\ EnsuredAgain.ok = (last.result = "OK")
       /\ \A q \in DOMAIN last.pre.disk.tree :
             q \in DOMAIN disk.tree /\ disk.tree[q] = last.pre.disk.tree[q]
       /\ \A q \in DOMAIN disk.tree \ DOMAIN last.pre.disk.tree :
             q \in Chain /\ disk.tree[q] = GroupNode(EmptyMap)
       /\ last.result = "OK" =>
             \A q \in Chain : IsGroup(disk.tree, q) \/ IsDataset(last.pre.disk.tree, q)
       /\ last.result # "OK" =>
             /\ disk = last.pre.disk
             /\ \E q \in Chain : IsDataset(last.pre.disk.tree, q)

\* a segment was there with a child of its own, another was created
C11_Witness ==
    /\ last.op = "create_required_groups"
    /\ last.result = "OK"
    /\ \E q \in Chain \cap DOMAIN last.pre.disk.tree :
          \E c \in DOMAIN disk.tree \ Chain :
              Len(c) = Len(q) + 1 /\ SubSeq(c, 1, Len(q)) = q
    /\ Chain \ DOMAIN last.pre.disk.tree # {}

\* the descendants of the node that the last call was given
Below(tree) ==
    { q \in DOMAIN tree : /\ Len(q) > Len(DiscoveryNode)
                          /\ SubSeq(q, 1, Len(DiscoveryNode)) = DiscoveryNode }

\* C15: _list_tables(node) reports exactly the full relative paths of the
\* descendants of node, at any depth, that are datasets with named fields:
\* no group, no dataset without named fields, and every record dataset.
C15_DiscoveryExact ==
    (last.op = "list_tables")
    => /\ last.detail = Discovered
       /\ \A n \in last.detail :
             /\ IsDataset(disk.tree, DiscoveryNode \o PathOf(n))
             /\ DOMAIN disk.tree[DiscoveryNode \o PathOf(n)].data # {}
       /\ \A q \in Below(disk.tree) :
             (IsDataset(disk.tree, q) /\ DOMAIN disk.tree[q].data # {})
             => JoinPath(SubSeq(q, Len(DiscoveryNode) + 1, Len(q))) \in last.detail

\* a record dataset two levels down is reported, the group above it and a
\* dataset without named fields are not
C15_Witness ==
    /\ last.op = "list_tables"
    /\ \E n \in last.detail : Len(PathOf(n)) = 2
    /\ \E q \in Below(disk.tree) : IsGroup(disk.tree, q)
    /\ \E q \in Below(disk.tree) :
          IsDataset(disk.tree, q) /\ DOMAIN disk.tree[q].data = {}

\* the names of the tables of the last write or write_set, before
\* ignore_groups is applied
GivenNames ==
    IF last.op = "write"
    THEN << IF last.args.wtable.table_name # <<>>
            THEN last.args.wtable.table_name ELSE TableLiteral >>
    ELSE [ i \in 1..Len(last.args.wset.tables) |->
             IF last.args.wset.tables[i].table_name # <<>>
             THEN last.args.wset.tables[i].table_name ELSE TableIndexed(i - 1) ]

GivenData ==
    IF last.op = "write" THEN << last.args.wtable.data >>
    ELSE [ i \in 1..Len(last.args.wset.tables) |-> last.args.wset.tables[i].data ]

\* the nodes that the last call added to the container it opened
NewNodes == DOMAIN disk.tree \ DOMAIN OpenedTree

\* C12: after a write or write_set that returns, with ignore_groups=True
\* each dataset lies directly under the target group under the last
\* segment of its name and no group of the name's directory portion was
\* created; with ignore_groups=False each dataset lies at the full path,
\* every segment of the directory portion is a group and the last segment
\* is a dataset, not a group.
C12_IgnoreGroups ==
    (last.op \in {"write", "write_set"} /\ last.result = "OK")
    => \A i \in 1..Len(GivenNames) :
         LET segs == PathOf(GivenNames[i])
             dirs == { TargetGroup \o SubSeq(segs, 1, k) : k \in 1..(Len(segs) - 1) }
             at   == IF last.args.ignore_groups
                     THEN TargetGroup \o << segs[Len(segs)] >>
                     ELSE TargetGroup \o segs
         IN  /\ IsDataset(disk.tree, at)
             /\ disk.tree[at].data = GivenData[i]
             /\ IF last.args.ignore_groups
                THEN dirs \cap NewNodes = {}
                ELSE \A q \in dirs : IsGroup(disk.tree, q)

\* a table named a/b/T of a set lands as T under the group g
C12_Witness ==
    /\ last.op = "write_set" /\ last.result = "OK"
    /\ last.args.ignore_groups
    /\ last.args.group # <<>>
    /\ \E i \in 1..Len(GivenNames) : Len(PathOf(GivenNames[i])) = 3

\* nothing stands in the way of the datasets of the last call: a write
\* whose dataset can be created where it goes, or a write_set of no table
NothingInTheWay ==
    \/ /\ last.op = "write"
       /\ CanCreate(last.pre.disk.tree,
                    TargetGroup \o PathOf(FinalName(last.args.wtable, TableLiteral)))
    \/ /\ last.op = "write_set"
       /\ last.args.wset.tables = <<>>

\* C16: a write or write_set to a filename with append=True and a group
\* option that names an existing group of the file, of one segment or of
\* several, reuses that group: the existing group does not make the call
\* fail, and all that the file held is kept.
C16_GroupReuse ==
    (/\ IsFileWrite
     /\ h5py_installed
     /\ last.args.append
     /\ last.args.group # <<>>
     /\ IsGroup(last.pre.disk.tree, PathOf(last.args.group))
     /\ NothingInTheWay)
    => /\ last.result = "OK"
       /\ \A p \in DOMAIN last.pre.disk.tree :
             p \in DOMAIN disk.tree /\ disk.tree[p].kind = last.pre.disk.tree[p].kind

\* the file is what a write_set of unnamed tables, without a group option,
\* made of a missing file
WrittenUnnamed ==
    /\ written.set_valid
    /\ written.group = <<>>
    /\ \A i \in 1..Len(written.set.tables) : written.set.tables[i].table_name = <<>>

\* C13: write_set stores the table at position i (from 0) under its own
\* table_name or, when that is empty, under 'Table_' and i in two digits;
\* write stores an unnamed table under 'Table'; a set of unnamed tables
\* written to a fresh file is read back by read_set as tables named
\* Table_00, Table_01, ... in that order.
C13_FallbackNaming ==
    /\ (last.op \in {"write", "write_set"} /\ last.result = "OK")
       => \A i \in 1..Len(GivenNames) :
            LET at == TargetGroup \o PathOf(dataset_name(GivenNames[i], last.args.ignore_groups))
            IN  IsDataset(disk.tree, at) /\ disk.tree[at].data = GivenData[i]
    /\ (last.op = "write" /\ last.result = "OK" /\ last.args.wtable.table_name = <<>>)
       => IsDataset(disk.tree, TargetGroup \o << TableLiteral >>)
    /\ (last.op = "read_set" /\ WrittenUnnamed)
       => /\ last.result = "OK"
          /\ Len(tset.tables) = Len(written.set.tables)
          /\ \A i \in 1..Len(tset.tables) :
                /\ tset.tables[i].table_name = TableIndexed(i - 1)
                /\ tset.tables[i].data = written.set.tables[i].data

\* C14: after write_set(ts, f, group=G) to a fresh file, for an empty or a
\* non-empty G, read_set(ts2, f) succeeds and leaves ts2.keywords equal to
\* ts.keywords.
C14_SetKeywordsRoundTrip ==
    (last.op = "read_set" /\ written.set_valid)
    => /\ last.result = "OK"
       /\ tset.keywords = written.set.keywords

\* C17: without the container backend, read, read_set, write and write_set
\* fail with the capability error and nothing else has happened: the file
\* is as it was (not created, not deleted), no handle was opened, and the
\* Table and the TableSet hold what they held.
C17_CapabilityFirst ==
    (last.op \in {"read", "read_set", "write", "write_set"} /\ ~h5py_installed)
    => /\ last.result = "CapabilityError"
       /\ ~last.removed
       /\ disk = last.pre.disk
       /\ opened = last.pre.opened
       /\ tbl = last.pre.tbl
       /\ tset = last.pre.tset

\* a filled Table handed to read, on a file that is missing
C17_Witness ==
    /\ ~h5py_installed
    /\ last.op = "read"
    /\ last.result = "CapabilityError"
    /\ ~disk.exists
    /\ tbl # EmptyTable

\* C18: a read that fails with file-not-found or with the discovery error
\* leaves the Table with the columns, keywords and table_name it had.
C18_FailedReadKeepsTable ==
    (last.op = "read" /\ last.result \in {"FileNotFound", "TableException"})
    => tbl = last.pre.tbl

\* C19: a write or write_set with append=True on a filename that exists
\* does not delete the file and does not fail with 'File exists', whatever
\* overwrite is; the file is deleted exactly when append=False and
\* overwrite=True.
C19_AppendPrecedence ==
    (IsFileWrite /\ h5py_installed /\ last.pre.disk.exists)
    => /\ last.args.append =>
             /\ ~last.removed
             /\ last.result # "FileExists"
             /\ disk.exists
             /\ \A p \in DOMAIN last.pre.disk.tree :
                   p \in DOMAIN disk.tree /\ disk.tree[p].data = last.pre.disk.tree[p].data
       /\ last.removed <=> (~last.args.append /\ last.args.overwrite)

\* append and overwrite together, on a file that holds a table
C19_Witness ==
    /\ last.op = "write_set" /\ ~last.args.target.isHandle
    /\ last.args.append /\ last.args.overwrite
    /\ RecordDatasets(last.pre.disk.tree) # {}
    /\ last.result = "OK"
    /\ ~last.removed

\* C20: after a read or read_set, however it ends, on a filename or on a
\* handle of the caller, the container is as it was before the call; a
\* read of a filename that does not exist fails with file-not-found and
\* there is still no file.
C20_ReadsChangeNothing ==
    (last.op \in {"read", "read_set"})
    => /\ disk = last.pre.disk
       /\ (/\ last.op = "read"
           /\ ~last.args.target.isHandle
           /\ h5py_installed
           /\ ~last.pre.disk.exists)
          => last.result = "FileNotFound" /\ ~disk.exists

\* a table was read through a handle of the caller
C20_Witness ==
    /\ last.op = "read" /\ last.args.target.isHandle
    /\ last.result = "OK"
    /\ tbl.data # EmptyMap
    /\ RecordDatasets(disk.tree) # {}
    /\ disk = last.pre.disk

====
